---- MODULE Spec2Model ----
(***************************************************************************)
(* GLMT proxy (bin/glmt-proxy.js): the lifecycle of the listening process  *)
(* and of every inbound request, from the 'request' event of the HTTP      *)
(* server to the response written to the client.  One action per event     *)
(* handler or per statement of the async function handleRequest.           *)
(***************************************************************************)
EXTENDS Integers, Sequences, FiniteSets, TLC

\* ------------------------------------------------------------------ bounds
NumReq == 2          \* inbound connections the model follows
MaxChunks == 2       \* 'data' events delivered on one inbound request

Requests == 1..NumReq

\* ------------------------------------------------------- program constants
maxSize == 10 * 1024 * 1024

\* ------------------------------------------------------------ input domains
Methods == {"POST", "GET"}
\* the first chunk fills the cap exactly or exceeds it by one byte, every later
\* chunk is one byte: a body is at the cap, crosses it with its first chunk,
\* or crosses it by one byte with a later one
ChunkSizes(total) == IF total = 0 THEN {maxSize, maxSize + 1} ELSE {1}
NotJson == "<not json>"
InBodies == {NotJson, "null", "{messages:[{user,hi}]}"}
StatusCodes == {200, 201, 500}
UpBodies == {NotJson, "{choices:[]}", "{choices:[{message}]}"}

\* ------------------------------------------------------------------- state
VARIABLES
  process,          \* "starting" | "running" | "exited"
  exitCause,        \* "none" | "bind_failure" | "signal" | "uncaughtException"
  server,           \* "created" | "listening" | "closed"
  pc,               \* position of handleRequest(req, res), per request
  reqStream,        \* inbound IncomingMessage: "none" | "open" | "ended" | "errored"
  totalSize,        \* _readBody: bytes seen so far
  dataEvents,       \* 'data' events delivered on the inbound request
  bodyPromise,      \* promise returned by _readBody
  anthropicRequest, \* result of JSON.parse(body)
  openaiRequest,    \* result of transformer.transformRequest
  thinkingConfig,   \* the ThinkingConfig transformRequest handed back
  upReq,            \* outbound ClientRequest
  timeoutHandle,    \* "unset" | "armed" | "cleared" | "fired"
  statusCode,       \* res.statusCode of the upstream response, 0 before headers
  upBody,           \* body text of the upstream response, joined at 'end'
  upPromise,        \* promise returned by _forwardToUpstream
  anthropicResponse,\* result of transformer.transformResponse
  written,          \* responses written on res, in order
  calls,            \* per request: how often each pipeline step was invoked
  transformer,      \* fields of the GlmtTransformer instance all requests share
  unitCall,         \* transformer method called on its own, "none" before
  unitArgs,         \* the arguments of that call
  unitResult,       \* what the call returned
  disk,             \* the debug log directory: "writable" | "failing"
  accumulator,      \* the DeltaAccumulator of each streaming exchange
  handled           \* the events each exchange has handled, in order

vars == <<process, exitCause, server, pc, reqStream, totalSize,
          dataEvents, bodyPromise, anthropicRequest, openaiRequest, upReq,
          timeoutHandle, statusCode, upBody, upPromise, anthropicResponse,
          written, calls, thinkingConfig, transformer, unitCall, unitArgs,
          unitResult, disk, accumulator, handled>>

procVars == <<process, exitCause, server>>
bodyVars == <<reqStream, totalSize, dataEvents, bodyPromise>>
upVars == <<upReq, timeoutHandle, statusCode, upBody, upPromise>>
pipeVars == <<anthropicRequest, openaiRequest, thinkingConfig, anthropicResponse>>
unitVars == <<unitCall, unitArgs, unitResult, disk, accumulator, handled>>

\* ---------------------------------------------------------------- promises
Pending == [state |-> "pending", value |-> "none"]
Resolved(v) == [state |-> "resolved", value |-> v]
Rejected(msg) == [state |-> "rejected", value |-> msg]
\* resolve and reject settle a promise once; later calls are ignored
Settle(p, outcome) == IF p.state = "pending" THEN outcome ELSE p

\* ------------------------------------------------------------ JSON helpers
JSONparse(text) ==
  IF text = NotJson THEN [ok |-> FALSE, value |-> "none"]
  ELSE [ok |-> TRUE, value |-> text]

\* ------------------------------------------------------------- JSON values
\* A parsed JSON value is the pair of its kind and its content.  A string is the sequence of its
\* words (a control tag is one word), an array the sequence of its items, an
\* object the record of its fields; a field that is missing is not in the
\* record.
Absent == <<"undefined">>
Null == <<"null">>
Bool(b) == <<"boolean", b>>
Num(n) == <<"number", n>>
Str(words) == <<"string", words>>
Arr(items) == <<"array", items>>
Obj(fields) == <<"object", fields>>
Kind(v) == v[1]
Value(v) == v[2]

Nullish(v) == Kind(v) \in {"undefined", "null"}
Falsy(v) ==
  \/ Nullish(v)
  \/ Kind(v) = "boolean" /\ ~Value(v)
  \/ Kind(v) = "number" /\ Value(v) = 0
  \/ Kind(v) = "string" /\ Value(v) = <<>>
\* v[name] of a value that is not null or undefined
Get(v, name) ==
  IF Kind(v) = "object" /\ name \in DOMAIN Value(v) THEN Value(v)[name] ELSE Absent
\* obj[name] = v
Put(obj, name, v) == Obj((name :> v) @@ Value(obj))
\* the items a for...of loop or .map visits that can be messages or blocks
Items(v) == IF Kind(v) = "array" THEN Value(v) ELSE <<>>

\* the value JSON.parse returns for each text on the wire
JSONvalue(text) ==
  CASE text = "null" -> Null
    [] text = "{messages:[{user,hi}]}" ->
         Obj([messages |-> Arr(<<Obj([role |-> Str(<<"user">>),
                                      content |-> Str(<<"hi">>)])>>)])
    [] text = "{choices:[]}" -> Obj([choices |-> Arr(<<>>)])
    [] text = "{choices:[{message}]}" ->
         Obj([choices |-> Arr(<<Obj([message |-> Obj([content |-> Str(<<"done">>)]),
                                     finish_reason |-> Str(<<"stop">>)])>>)])
    [] OTHER -> Absent

\* ---------------------------------------------------------- GlmtTransformer
\* new GlmtTransformer({ verbose }): the fields of the one instance the proxy
\* shares between all requests
GlmtTransformer ==
  [defaultThinking |-> TRUE, verbose |-> FALSE, debugLog |-> FALSE]

modelMaxTokens == [m \in {"GLM-4.6", "GLM-4.5", "GLM-4.5-air"} |->
  IF m = "GLM-4.6" THEN 128000 ELSE IF m = "GLM-4.5" THEN 96000 ELSE 16000]
mapModel(anthropicModel) == "GLM-4.6"
getMaxTokens(model) ==
  IF model \in DOMAIN modelMaxTokens THEN modelMaxTokens[model] ELSE 128000

\* the words /<Thinking:(On|Off)>/i and /<Effort:(Low|Medium|High)>/i match
OnTags == {"<Thinking:On>", "<thinking:ON>"}
OffTags == {"<Thinking:Off>", "<THINKING:off>"}
LowTags == {"<Effort:Low>", "<EFFORT:LOW>"}
MediumTags == {"<Effort:Medium>"}
HighTags == {"<Effort:High>", "<effort:high>"}
ThinkingTags == OnTags \cup OffTags
EffortTags == LowTags \cup MediumTags \cup HighTags

\* content.match(regex) without the g flag: the position of the first match
\* in the string, 0 for null
match(words, tags) ==
  IF \E i \in 1..Len(words) : words[i] \in tags
    THEN CHOOSE i \in 1..Len(words) :
           /\ words[i] \in tags
           /\ \A j \in 1..(i - 1) : words[j] \notin tags
    ELSE 0

\* thinkingMatch[1].toLowerCase() === 'on'
thinkingOn(word) == word \in OnTags
\* effortMatch[1].toLowerCase()
effortOf(word) ==
  IF word \in LowTags THEN "low"
  ELSE IF word \in MediumTags THEN "medium" ELSE "high"

\* msg.role === 'user'
isUserMessage(msg) == Get(msg, "role") = Str(<<"user">>)

\* one turn of the loop of _extractThinkingControl (lines 273-291)
scanMessage(config, msg) ==
  IF ~isUserMessage(msg) THEN config
  ELSE IF Kind(Get(msg, "content")) # "string" THEN config
  ELSE LET content == Value(Get(msg, "content"))
           thinkingMatch == match(content, ThinkingTags)
           effortMatch == match(content, EffortTags)
           decided == IF thinkingMatch # 0
                        THEN [config EXCEPT !.thinking = thinkingOn(content[thinkingMatch])]
                        ELSE config
       IN IF effortMatch # 0
            THEN [decided EXCEPT !.effort = effortOf(content[effortMatch])]
            ELSE decided

RECURSIVE scanFrom(_, _, _)
scanFrom(messages, i, config) ==
  IF i > Len(messages) THEN config
  ELSE scanFrom(messages, i + 1, scanMessage(config, messages[i]))

\* _extractThinkingControl(messages)
extractThinkingControl(messages) ==
  scanFrom(Items(messages), 1,
           [thinking |-> transformer.defaultThinking, effort |-> "medium"])

isTextBlock(block) == Get(block, "type") = Str(<<"text">>)

\* the callback of messages.map in _sanitizeMessages with `length >= 1` in
\* place of `length === 1`: whatever remains collapses to its first text
sanitizeMessage_collapseAny(msg) ==
  LET content == Get(msg, "content") IN
    IF Kind(content) = "string" THEN msg
    ELSE IF Kind(content) = "array"
      THEN LET sanitizedContent == SelectSeq(Value(content), isTextBlock) IN
             IF Len(sanitizedContent) = 0
               THEN Obj([role |-> Get(msg, "role"), content |-> Str(<<>>)])
             ELSE Obj([role |-> Get(msg, "role"),
                       content |-> Get(sanitizedContent[1], "text")])
    ELSE msg

\* the callback of messages.map in _sanitizeMessages (lines 214-258)
sanitizeMessage(msg) ==
  LET content == Get(msg, "content") IN
    IF Kind(content) = "string" THEN msg
    ELSE IF Kind(content) = "array"
      THEN LET sanitizedContent == SelectSeq(Value(content), isTextBlock) IN
             IF Len(sanitizedContent) = 0
               THEN Obj([role |-> Get(msg, "role"), content |-> Str(<<>>)])
             ELSE IF Len(sanitizedContent) = 1
               THEN Obj([role |-> Get(msg, "role"),
                         content |-> Get(sanitizedContent[1], "text")])
             ELSE Obj([role |-> Get(msg, "role"),
                       content |-> Arr(sanitizedContent)])
    ELSE msg

\* _sanitizeMessages that forwards the user messages only
sanitizeMessages_userOnly(messages) ==
  Arr([i \in 1..Len(SelectSeq(Items(messages), isUserMessage)) |->
         sanitizeMessage(SelectSeq(Items(messages), isUserMessage)[i])])

\* _sanitizeMessages(messages)
sanitizeMessages(messages) ==
  Arr([i \in 1..Len(Items(messages)) |-> sanitizeMessage(Items(messages)[i])])

\* _injectReasoningParams that sets the reasoning fields whatever the config
injectReasoningParams_always(req, config) ==
  Put(Put(Put(req, "do_sample", Bool(TRUE)), "reasoning", Bool(TRUE)),
      "reasoning_effort", Str(<<config.effort>>))

\* _injectReasoningParams(openaiRequest, thinkingConfig)
injectReasoningParams(req, config) ==
  LET sampled == Put(req, "do_sample", Bool(TRUE)) IN
    IF config.thinking
      THEN Put(Put(sampled, "reasoning", Bool(TRUE)),
               "reasoning_effort", Str(<<config.effort>>))
      ELSE sampled

\* The statements of the try block of transformRequest that throw a
\* TypeError: reading .messages of null, iterating a value that is not
\* iterable, reading .role or .content of a null message, calling .map on a
\* value that has none, reading .type of a null block
requestThrows(request) ==
  \/ Nullish(request)
  \/ LET messages == IF Falsy(Get(request, "messages")) THEN Arr(<<>>)
                     ELSE Get(request, "messages")
     IN \/ Kind(messages) # "array"
        \/ \E i \in 1..Len(Value(messages)) :
             \/ Nullish(Value(messages)[i])
             \/ \E k \in 1..Len(Items(Get(Value(messages)[i], "content"))) :
                  Nullish(Items(Get(Value(messages)[i], "content"))[k])

\* GlmtTransformer.transformRequest(anthropicRequest), lines 46-98: the
\* result of the try block, or of the catch block when a statement throws
transformRequest(request) ==
  IF requestThrows(request)
    THEN [openaiRequest |-> request,
          thinkingConfig |-> [thinking |-> FALSE],
          error |-> "TypeError"]
    ELSE LET messages == IF Falsy(Get(request, "messages")) THEN Arr(<<>>)
                         ELSE Get(request, "messages")
             config == extractThinkingControl(messages)
             glmModel == mapModel(Get(request, "model"))
             stream == Get(request, "stream")
             built == [model |-> Str(<<glmModel>>),
                       messages |-> sanitizeMessages(messages),
                       max_tokens |-> Num(getMaxTokens(glmModel)),
                       stream |-> IF Nullish(stream) THEN Bool(FALSE) ELSE stream]
             withTemperature ==
               IF Kind(Get(request, "temperature")) # "undefined"
                 THEN ("temperature" :> Get(request, "temperature")) @@ built
                 ELSE built
             withTopP ==
               IF Kind(Get(request, "top_p")) # "undefined"
                 THEN ("top_p" :> Get(request, "top_p")) @@ withTemperature
                 ELSE withTemperature
             buffered ==
               IF ~Falsy(stream) THEN [withTopP EXCEPT !.stream = Bool(FALSE)]
               ELSE withTopP
         IN [openaiRequest |-> injectReasoningParams(Obj(buffered), config),
             thinkingConfig |-> config]

\* The properties a finish_reason can name besides the four own keys of the
\* mapping literal of _mapStopReason: the literal inherits the methods of
\* Object.prototype, and mapping[openaiReason] finds them
ObjectPrototype == {"constructor", "toString", "valueOf", "hasOwnProperty"}

\* _mapStopReason(openaiReason): mapping[openaiReason] || 'end_turn'
mapStopReason(openaiReason) ==
  IF openaiReason = Str(<<"stop">>) THEN Str(<<"end_turn">>)
  ELSE IF openaiReason = Str(<<"length">>) THEN Str(<<"max_tokens">>)
  ELSE IF openaiReason = Str(<<"tool_calls">>) THEN Str(<<"tool_use">>)
  ELSE IF openaiReason = Str(<<"content_filter">>) THEN Str(<<"stop_sequence">>)
  ELSE IF /\ Kind(openaiReason) = "string" /\ Len(Value(openaiReason)) = 1
          /\ Value(openaiReason)[1] \in ObjectPrototype
    THEN <<"function", Value(openaiReason)[1]>>
  ELSE Str(<<"end_turn">>)

\* _generateThinkingSignature(thinking): the hash is a function of the text
generateThinkingSignature(thinking) ==
  Obj([type |-> Str(<<"thinking_signature">>), hash |-> thinking])

\* JSON.parse of the arguments string of a tool call
ArgumentTexts == {"{}", "{path:.}"}
parseArguments(arguments) ==
  IF Falsy(arguments) \/ arguments = Str(<<"{}">>) THEN Obj(<<>>)
  ELSE Obj([path |-> Str(<<".">>)])

\* openaiResponse.choices?.[0]
firstChoice(response) ==
  IF Len(Items(Get(response, "choices"))) > 0
    THEN Value(Get(response, "choices"))[1] ELSE Absent

toolCalls(message) == Items(Get(message, "tool_calls"))

\* The message of the error the try block of transformResponse throws, "none"
\* when it runs to its return: a TypeError on a null response, on a choice
\* without message, on a reasoning_content that is no string (it has no
\* split), on a tool_calls string (it has no forEach) or on a tool call
\* without function; the Error of line 113; the SyntaxError of JSON.parse
responseError(response) ==
  IF Nullish(response) THEN "Cannot read properties of null"
  ELSE IF Falsy(firstChoice(response)) THEN "No choices in OpenAI response"
  ELSE LET message == Get(firstChoice(response), "message")
       IN IF Nullish(message) THEN "Cannot read properties of undefined"
          ELSE IF /\ ~Falsy(Get(message, "reasoning_content"))
                  /\ Kind(Get(message, "reasoning_content")) # "string"
            THEN "message.reasoning_content.split is not a function"
          ELSE IF /\ ~Falsy(Get(message, "tool_calls"))
                  /\ Kind(Get(message, "tool_calls")) = "string"
            THEN "message.tool_calls.forEach is not a function"
          ELSE IF \E i \in 1..Len(toolCalls(message)) :
                    Nullish(Get(toolCalls(message)[i], "function"))
            THEN "Cannot read properties of undefined"
          ELSE IF \E i \in 1..Len(toolCalls(message)) :
                    LET arguments ==
                          Get(Get(toolCalls(message)[i], "function"), "arguments")
                    IN ~Falsy(arguments) /\ Value(arguments)[1] \notin ArgumentTexts
            THEN "Unexpected token"
          ELSE "none"

\* A thinking block for every upstream message, with or without reasoning
thinkingBlock_always(message) ==
  <<Obj([type |-> Str(<<"thinking">>),
         thinking |-> Get(message, "reasoning_content"),
         signature |-> generateThinkingSignature(Get(message, "reasoning_content"))])>>

\* lines 119-141: the thinking block, if message.reasoning_content is truthy
thinkingBlock(message) ==
  IF ~Falsy(Get(message, "reasoning_content"))
    THEN <<Obj([type |-> Str(<<"thinking">>),
                thinking |-> Get(message, "reasoning_content"),
                signature |-> generateThinkingSignature(
                                Get(message, "reasoning_content"))])>>
    ELSE <<>>

\* lines 143-149: the text block, if message.content is truthy
textBlock(message) ==
  IF ~Falsy(Get(message, "content"))
    THEN <<Obj([type |-> Str(<<"text">>), text |-> Get(message, "content")])>>
    ELSE <<>>

toolUse(toolCall) ==
  Obj([type |-> Str(<<"tool_use">>),
       id |-> Get(toolCall, "id"),
       name |-> Get(Get(toolCall, "function"), "name"),
       input |-> parseArguments(Get(Get(toolCall, "function"), "arguments"))])

\* lines 151-161: one tool_use block per tool call, in upstream order
toolUseBlocks(message) ==
  [i \in 1..Len(toolCalls(message)) |-> toolUse(toolCalls(message)[i])]

\* An error response that keeps nothing of the error
errorResponse_silent(message) ==
  Obj([id |-> Str(<<"msg_error_", "Date.now()">>),
       type |-> Str(<<"message">>),
       role |-> Str(<<"assistant">>),
       content |-> Arr(<<>>),
       stop_reason |-> Str(<<"end_turn">>),
       usage |-> Obj([input_tokens |-> Num(0), output_tokens |-> Num(0)])])

\* lines 189-203: what the catch block of transformResponse returns
errorResponse(message) ==
  Obj([id |-> Str(<<"msg_error_", "Date.now()">>),
       type |-> Str(<<"message">>),
       role |-> Str(<<"assistant">>),
       content |-> Arr(<<Obj([type |-> Str(<<"text">>),
                              text |-> Str(<<"[Transformation Error] ",
                                             message>>)])>>),
       stop_reason |-> Str(<<"end_turn">>),
       usage |-> Obj([input_tokens |-> Num(0), output_tokens |-> Num(0)])])

\* lines 111-174: the anthropicResponse the try block builds when nothing
\* throws
translate(response) ==
  LET choice == firstChoice(response)
      message == Get(choice, "message")
  IN Obj([id |-> IF Falsy(Get(response, "id"))
                   THEN Str(<<"msg_", "Date.now()">>)
                   ELSE Get(response, "id"),
          type |-> Str(<<"message">>),
          role |-> Str(<<"assistant">>),
          content |-> Arr(thinkingBlock(message) \o textBlock(message)
                            \o toolUseBlocks(message)),
          model |-> IF Falsy(Get(response, "model"))
                      THEN Str(<<"glm-4.6">>) ELSE Get(response, "model"),
          stop_reason |-> mapStopReason(Get(choice, "finish_reason")),
          usage |-> IF Falsy(Get(response, "usage"))
                      THEN Obj([input_tokens |-> Num(0),
                                output_tokens |-> Num(0)])
                      ELSE Get(response, "usage")])

\* _validateTransformation(anthropicResponse), lines 408-421
validateTransformation(result) ==
  LET content == Items(Get(result, "content"))
      checks ==
        [hasContent |-> Len(content) > 0,
         hasThinking |-> \E i \in 1..Len(content) :
                           Get(content[i], "type") = Str(<<"thinking">>),
         hasText |-> \E i \in 1..Len(content) :
                       Get(content[i], "type") = Str(<<"text">>),
         validStructure |-> /\ Get(result, "type") = Str(<<"message">>)
                            /\ Get(result, "role") = Str(<<"assistant">>),
         hasUsage |-> ~Falsy(Get(result, "usage"))]
  IN [checks |-> checks, valid |-> \A c \in DOMAIN checks : checks[c]]

\* A debug log whose failed write escapes
writeDebugLog_uncaught(type, data) ==
  IF transformer.debugLog /\ disk = "failing" THEN "thrown" ELSE "returned"

\* _writeDebugLog(type, data), lines 381-401: returns at once without the
\* debugLog flag; mkdirSync and writeFileSync run inside its own try, whose
\* catch only prints
writeDebugLog(type, data) ==
  IF ~transformer.debugLog THEN "returned"
  ELSE IF disk = "failing" THEN "returned" ELSE "returned"

\* An exception that leaves a method
Thrown(message) == <<"thrown", message>>

\* A response transformer that leaves the thinking block out when the request
\* had thinking off
transformResponse_gated(response, config) ==
  IF responseError(response) # "none" THEN errorResponse(responseError(response))
  ELSE IF config.thinking THEN translate(response)
  ELSE Put(translate(response), "content",
           Arr(textBlock(Get(firstChoice(response), "message"))
                 \o toolUseBlocks(Get(firstChoice(response), "message"))))

\* GlmtTransformer.transformResponse(openaiResponse, thinkingConfig), lines
\* 106-204: the first debug log is written before the try block; the try
\* block translates, validates under the verbose flag (the outcome is only
\* logged) and writes the second debug log; the catch block answers whatever
\* the try block throws
transformResponse(response, config) ==
  LET error == responseError(response) IN
  IF writeDebugLog("response-openai", response) = "thrown"
    THEN Thrown("EACCES")
  ELSE IF error # "none"
    THEN errorResponse(error)
  ELSE LET translated == translate(response)
           validation == IF transformer.verbose
                           THEN validateTransformation(translated).valid
                           ELSE TRUE
       IN IF writeDebugLog("response-anthropic", translated) = "thrown"
            THEN errorResponse("EACCES")
            ELSE translated

\* ------------------------------------------------ the documented controls
\* Loop detection (DeltaAccumulator): one accumulator per streaming exchange
MaxEvents == 6       \* stream events handled over all exchanges
Exchanges == {"a", "b"}
loopThreshold == 3
ThinkingStart == [type |-> "content_block_start", content_block |-> "thinking"]
TextStart == [type |-> "content_block_start", content_block |-> "text"]
ToolCallEvent == [type |-> "tool_call", content_block |-> "none"]
ToolResultEvent == [type |-> "tool_result", content_block |-> "none"]
Events == {ThinkingStart, TextStart, ToolCallEvent, ToolResultEvent}

\* new DeltaAccumulator(): the counter, and the loop breakers injected so far
DeltaAccumulator == [consecutiveThinkingBlocks |-> 0, injected |-> 0]

\* injectLoopBreaker(): injects the corrective directive and starts counting
\* again
injectLoopBreaker(acc) ==
  [acc EXCEPT !.injected = @ + 1, !.consecutiveThinkingBlocks = 0]

\* A detector that only triggers above the threshold
trackThinkingLoop_late(acc, event) ==
  LET counted == IF event = ThinkingStart
                   THEN [acc EXCEPT !.consecutiveThinkingBlocks = @ + 1] ELSE acc
      broken == IF event = ThinkingStart
                     /\ counted.consecutiveThinkingBlocks > loopThreshold
                  THEN injectLoopBreaker(counted) ELSE counted
  IN IF event.type \in {"tool_call", "tool_result"}
       THEN [broken EXCEPT !.consecutiveThinkingBlocks = 0] ELSE broken

\* trackThinkingLoop(event)
trackThinkingLoop(acc, event) ==
  LET counted == IF event = ThinkingStart
                   THEN [acc EXCEPT !.consecutiveThinkingBlocks = @ + 1] ELSE acc
      broken == IF event = ThinkingStart
                     /\ counted.consecutiveThinkingBlocks >= loopThreshold
                  THEN injectLoopBreaker(counted) ELSE counted
  IN IF event.type \in {"tool_call", "tool_result"}
       THEN [broken EXCEPT !.consecutiveThinkingBlocks = 0] ELSE broken

\* --------------------------------------------------------- LocaleEnforcer
\* this.instruction, and its letters in lower case as a keyword search sees
\* them
instruction ==
  "CRITICAL: You MUST respond in English only, regardless of the input language or context. This is a strict requirement."
instructionLetters ==
  <<"c", "r", "i", "t", "i", "c", "a", "l", ":", " ", "y", "o", "u", " ",
    "m", "u", "s", "t", " ", "r", "e", "s", "p", "o", "n", "d", " ", "i",
    "n", " ", "e", "n", "g", "l", "i", "s", "h", " ", "o", "n", "l", "y",
    ",", " ", "r", "e", "g", "a", "r", "d", "l", "e", "s", "s", " ", "o",
    "f", " ", "t", "h", "e", " ", "i", "n", "p", "u", "t", " ", "l", "a",
    "n", "g", "u", "a", "g", "e", " ", "o", "r", " ", "c", "o", "n", "t",
    "e", "x", "t", ".", " ", "t", "h", "i", "s", " ", "i", "s", " ", "a",
    " ", "s", "t", "r", "i", "c", "t", " ", "r", "e", "q", "u", "i", "r",
    "e", "m", "e", "n", "t", ".">>
\* the reasoning and execution keywords of the task classifier, letter by
\* letter
ClassifierKeywords ==
  {<<"t", "h", "i", "n", "k">>,
   <<"a", "n", "a", "l", "y", "z", "e">>,
   <<"d", "e", "s", "i", "g", "n">>,
   <<"p", "l", "a", "n">>,
   <<"d", "e", "b", "u", "g">>,
   <<"o", "p", "t", "i", "m", "i", "z", "e">>,
   <<"r", "e", "v", "i", "e", "w">>,
   <<"e", "x", "p", "l", "a", "i", "n">>,
   <<"t", "h", "i", "n", "k", " ", "h", "a", "r", "d">>,
   <<"t", "h", "i", "n", "k", " ", "h", "a", "r", "d", "e", "r">>,
   <<"u", "l", "t", "r", "a", "t", "h", "i", "n", "k">>,
   <<"l", "i", "s", "t">>,
   <<"s", "h", "o", "w">>,
   <<"c", "r", "e", "a", "t", "e">>,
   <<"u", "p", "d", "a", "t", "e">>,
   <<"d", "e", "l", "e", "t", "e">>,
   <<"r", "u", "n">>,
   <<"e", "x", "e", "c", "u", "t", "e">>,
   <<"f", "i", "x">>,
   <<"i", "m", "p", "l", "e", "m", "e", "n", "t">>}
\* text.includes(keyword)
includes(text, keyword) ==
  \E i \in 1..(Len(text) - Len(keyword) + 1) :
    SubSeq(text, i, i + Len(keyword) - 1) = keyword

\* messages.findIndex(m => m.role === role), 0 where JavaScript gives -1
findIndex(messages, role) ==
  IF \E i \in 1..Len(messages) : Get(messages[i], "role") = Str(<<role>>)
    THEN CHOOSE i \in 1..Len(messages) :
           /\ Get(messages[i], "role") = Str(<<role>>)
           /\ \A j \in 1..(i - 1) : Get(messages[j], "role") # Str(<<role>>)
    ELSE 0

\* the instruction put in front of the content of a message: in front of the
\* text of a string, as the first text block of a block array
prependInstruction(msg) ==
  LET content == Get(msg, "content")
  IN IF Kind(content) = "string"
       THEN Put(msg, "content", Str(<<instruction>> \o Value(content)))
     ELSE IF Kind(content) = "array"
       THEN Put(msg, "content",
                Arr(<<Obj([type |-> Str(<<"text">>), text |-> Str(<<instruction>>)])>>
                      \o Value(content)))
     ELSE msg

\* An enforcer that rewrites the list it was given
injectInstruction_inPlace(messages) ==
  LET systemIndex == findIndex(messages, "system")
      userIndex == findIndex(messages, "user")
      target == IF systemIndex > 0 THEN systemIndex ELSE userIndex
      modifiedMessages ==
        IF target > 0
          THEN [messages EXCEPT ![target] = prependInstruction(@)]
          ELSE messages
  IN [returned |-> modifiedMessages, argument |-> modifiedMessages]

\* LocaleEnforcer.injectInstruction(messages): works on a clone, rewrites the
\* system message if there is one, else the first user message; returned is
\* the list it returns, argument the caller's list after the call
injectInstruction(messages) ==
  LET systemIndex == findIndex(messages, "system")
      userIndex == findIndex(messages, "user")
      target == IF systemIndex > 0 THEN systemIndex ELSE userIndex
      modifiedMessages ==
        IF target > 0
          THEN [messages EXCEPT ![target] = prependInstruction(@)]
          ELSE messages
  IN [returned |-> modifiedMessages, argument |-> messages]

\* ----------------------------------------------------------------- errors
TooLargeMsg == "Request body too large (max 10MB)"
AbortedMsg == "aborted"
TimeoutMsg == "Upstream request timeout"
StatusMsg == "Upstream error"
BadUpstreamJsonMsg == "Invalid JSON from upstream"
SocketMsg == "socket hang up"

ErrorEnvelope(type, message) ==
  [error |-> [json |-> "object", type |-> type, message |-> message]]

\* the variables of handleRequest before they are assigned
NoRequest == Absent
NoConfig == [thinking |-> FALSE, effort |-> "unset"]
NoResponse == Absent

NoCalls == [parse |-> 0, transformRequest |-> 0, forward |-> 0,
            transformResponse |-> 0]

Init ==
  /\ process = "starting"
  /\ exitCause = "none"
  /\ server = "created"
  /\ pc = [r \in Requests |-> "none"]
  /\ reqStream = [r \in Requests |-> "none"]
  /\ totalSize = [r \in Requests |-> 0]
  /\ dataEvents = [r \in Requests |-> 0]
  /\ bodyPromise = [r \in Requests |-> Pending]
  /\ anthropicRequest = [r \in Requests |-> "none"]
  /\ openaiRequest = [r \in Requests |-> NoRequest]
  /\ thinkingConfig = [r \in Requests |-> NoConfig]
  /\ upReq = [r \in Requests |-> "none"]
  /\ timeoutHandle = [r \in Requests |-> "unset"]
  /\ statusCode = [r \in Requests |-> 0]
  /\ upBody = [r \in Requests |-> "none"]
  /\ upPromise = [r \in Requests |-> Pending]
  /\ anthropicResponse = [r \in Requests |-> NoResponse]
  /\ written = [r \in Requests |-> <<>>]
  /\ calls = [r \in Requests |-> NoCalls]
  /\ transformer = GlmtTransformer
  /\ unitCall = "none"
  /\ unitArgs = <<>>
  /\ unitResult = Absent
  /\ disk = "writable"
  /\ accumulator = [x \in Exchanges |-> DeltaAccumulator]
  /\ handled = [x \in Exchanges |-> <<>>]

Alive == process = "running"

\* The positions of handleRequest between two awaits: the function runs on
\* without returning to the event loop.
SyncStages == {"BODY_READ", "PARSED", "REQUEST_TRANSFORMED",
               "UPSTREAM_RESPONDED", "RESPONSE_TRANSFORMED"}

\* handleRequest of r has a step to run before the event loop takes the next
\* event: it is between two awaits, or the promise it awaits has settled
Runnable(r) ==
  \/ pc[r] \in SyncStages
  \/ pc[r] = "RECEIVED" /\ bodyPromise[r].state # "pending"
  \/ pc[r] = "FORWARDED" /\ upPromise[r].state # "pending"

\* the event loop delivers an event only when no JavaScript is running
EventLoopIdle == \A r \in Requests : ~Runnable(r)

\* ------------------------------------------------------- process lifecycle
\* start(): the listen callback ran
Listening ==
  /\ process = "starting"
  /\ process' = "running"
  /\ server' = "listening"
  /\ UNCHANGED <<exitCause, pc, bodyVars, upVars, pipeVars, written, calls>>
  /\ UNCHANGED <<transformer, unitVars>>

\* start() rejected by the server 'error' event: process.exit(1)
BindFailure ==
  /\ process = "starting"
  /\ process' = "exited"
  /\ exitCause' = "bind_failure"
  /\ UNCHANGED <<server, pc, bodyVars, upVars, pipeVars, written, calls>>
  /\ UNCHANGED <<transformer, unitVars>>

\* SIGTERM / SIGINT handler: proxy.stop(); process.exit(0)
stop == IF server = "none" THEN server ELSE "closed"

Signal ==
  /\ process # "exited" /\ EventLoopIdle
  /\ server' = stop
  /\ process' = "exited"
  /\ exitCause' = "signal"
  /\ UNCHANGED <<pc, bodyVars, upVars, pipeVars, written, calls>>
  /\ UNCHANGED <<transformer, unitVars>>

\* ------------------------------------------------------------ handleRequest
\* Catch that rethrows: the rejection of handleRequest is unhandled and
\* reaches the uncaughtException handler of lines 300-304
Catch_rethrow(r, message, errpc) ==
  /\ pc' = [pc EXCEPT ![r] = errpc]
  /\ process' = "exited"
  /\ exitCause' = "uncaughtException"
  /\ server' = stop
  /\ UNCHANGED written

\* the catch block of handleRequest (lines 141-153)
Catch(r, message, errpc) ==
  /\ written' = [written EXCEPT ![r] =
        Append(@, [status |-> 500, body |-> ErrorEnvelope("proxy_error", message)])]
  /\ pc' = [pc EXCEPT ![r] = errpc]
  /\ UNCHANGED procVars

\* 'request' event: handleRequest runs up to `await this._readBody(req)`;
\* a request that is not a POST is answered 405 before it awaits anything.
\* Connections are numbered in the order in which they arrive.
Accept(r, m) ==
  /\ Alive /\ EventLoopIdle /\ server = "listening"
  /\ pc[r] = "none"
  /\ \A q \in Requests : q < r => pc[q] # "none"
  /\ IF m # "POST"
       THEN /\ written' = [written EXCEPT ![r] = Append(@,
                 [status |-> 405,
                  body |-> [error |-> [json |-> "string",
                                       value |-> "Method not allowed"]]])]
            /\ pc' = [pc EXCEPT ![r] = "ERROR_METHOD"]
            /\ UNCHANGED reqStream
       ELSE /\ pc' = [pc EXCEPT ![r] = "RECEIVED"]
            /\ reqStream' = [reqStream EXCEPT ![r] = "open"]
            /\ UNCHANGED written
  /\ UNCHANGED <<procVars, totalSize, dataEvents, bodyPromise, upVars,
                 pipeVars, calls>>
  /\ UNCHANGED <<transformer, unitVars>>

\* _readBody: req.on('data')
ReqData(r) ==
  /\ Alive /\ EventLoopIdle
  /\ reqStream[r] = "open"
  /\ dataEvents[r] < MaxChunks
  /\ dataEvents' = [dataEvents EXCEPT ![r] = @ + 1]
  /\ \E len \in ChunkSizes(totalSize[r]) :
       /\ totalSize' = [totalSize EXCEPT ![r] = @ + len]
       /\ IF totalSize[r] + len > maxSize
            THEN bodyPromise' = [bodyPromise EXCEPT ![r] =
                                  Settle(@, Rejected(TooLargeMsg))]
            ELSE UNCHANGED bodyPromise  \* chunks.push(chunk)
  /\ UNCHANGED <<procVars, pc, reqStream, upVars, pipeVars, written, calls>>
  /\ UNCHANGED <<transformer, unitVars>>

\* _readBody: req.on('end'); the text is what the client sent, the empty
\* string when no chunk was pushed
ReqEnd(r, text) ==
  /\ Alive /\ EventLoopIdle
  /\ reqStream[r] = "open"
  /\ totalSize[r] = 0 => text = NotJson
  /\ reqStream' = [reqStream EXCEPT ![r] = "ended"]
  /\ bodyPromise' = [bodyPromise EXCEPT ![r] = Settle(@, Resolved(text))]
  /\ UNCHANGED <<procVars, pc, totalSize, dataEvents, upVars, pipeVars,
                 written, calls>>
  /\ UNCHANGED <<transformer, unitVars>>

\* _readBody: req.on('error', reject), the client went away mid-body
ReqError(r) ==
  /\ Alive /\ EventLoopIdle
  /\ reqStream[r] = "open"
  /\ reqStream' = [reqStream EXCEPT ![r] = "errored"]
  /\ bodyPromise' = [bodyPromise EXCEPT ![r] = Settle(@, Rejected(AbortedMsg))]
  /\ UNCHANGED <<procVars, pc, totalSize, dataEvents, upVars, pipeVars,
                 written, calls>>
  /\ UNCHANGED <<transformer, unitVars>>

\* handleRequest resumes after `await this._readBody(req)`
AfterBody(r) ==
  /\ Alive
  /\ pc[r] = "RECEIVED"
  /\ bodyPromise[r].state # "pending"
  /\ IF bodyPromise[r].state = "resolved"
       THEN /\ pc' = [pc EXCEPT ![r] = "BODY_READ"]
            /\ UNCHANGED <<procVars, written>>
       ELSE Catch(r, bodyPromise[r].value,
                  IF bodyPromise[r].value = TooLargeMsg
                    THEN "ERROR_BODY_TOO_LARGE" ELSE "ERROR_INTERNAL")
  /\ UNCHANGED <<bodyVars, upVars, pipeVars, calls>>
  /\ UNCHANGED <<transformer, unitVars>>

\* ParseBody without the inner try/catch: the SyntaxError of JSON.parse
\* reaches the catch block of handleRequest
ParseBody_outerCatch(r) ==
  /\ Alive
  /\ pc[r] = "BODY_READ"
  /\ calls' = [calls EXCEPT ![r].parse = @ + 1]
  /\ LET parsed == JSONparse(bodyPromise[r].value) IN
       IF parsed.ok
         THEN /\ anthropicRequest' = [anthropicRequest EXCEPT ![r] = parsed.value]
              /\ pc' = [pc EXCEPT ![r] = "PARSED"]
              /\ UNCHANGED <<procVars, written>>
         ELSE /\ Catch(r, "Unexpected token", "ERROR_BAD_JSON")
              /\ UNCHANGED anthropicRequest
  /\ UNCHANGED <<bodyVars, upVars, openaiRequest, thinkingConfig,
                 anthropicResponse>>
  /\ UNCHANGED <<transformer, unitVars>>

\* handleRequest lines 96-109: JSON.parse(body) in its own try/catch
ParseBody(r) ==
  /\ Alive
  /\ pc[r] = "BODY_READ"
  /\ calls' = [calls EXCEPT ![r].parse = @ + 1]
  /\ LET parsed == JSONparse(bodyPromise[r].value) IN
       IF parsed.ok
         THEN /\ anthropicRequest' = [anthropicRequest EXCEPT ![r] = parsed.value]
              /\ pc' = [pc EXCEPT ![r] = "PARSED"]
              /\ UNCHANGED written
         ELSE /\ written' = [written EXCEPT ![r] = Append(@,
                   [status |-> 400,
                    body |-> ErrorEnvelope("invalid_request_error",
                                           "Invalid JSON in request body")])]
              /\ pc' = [pc EXCEPT ![r] = "ERROR_BAD_JSON"]
              /\ UNCHANGED anthropicRequest
  /\ UNCHANGED <<procVars, bodyVars, upVars, openaiRequest, thinkingConfig,
                 anthropicResponse>>
  /\ UNCHANGED <<transformer, unitVars>>

\* TransformRequest with a transformer that keeps the ThinkingConfig of the
\* last request on the instance, as the default of the next
TransformRequest_sharedConfig(r) ==
  /\ Alive
  /\ pc[r] = "PARSED"
  /\ calls' = [calls EXCEPT ![r].transformRequest = @ + 1]
  /\ LET result == transformRequest(JSONvalue(anthropicRequest[r])) IN
       /\ openaiRequest' = [openaiRequest EXCEPT ![r] = result.openaiRequest]
       /\ thinkingConfig' = [thinkingConfig EXCEPT ![r] = result.thinkingConfig]
       /\ transformer' = [transformer EXCEPT
                            !.defaultThinking = result.thinkingConfig.thinking]
  /\ pc' = [pc EXCEPT ![r] = "REQUEST_TRANSFORMED"]
  /\ UNCHANGED <<procVars, bodyVars, upVars, anthropicRequest, anthropicResponse,
                 written, unitVars>>

\* handleRequest lines 111-115
TransformRequest(r) ==
  /\ Alive
  /\ pc[r] = "PARSED"
  /\ calls' = [calls EXCEPT ![r].transformRequest = @ + 1]
  /\ LET result == transformRequest(JSONvalue(anthropicRequest[r])) IN
       /\ openaiRequest' = [openaiRequest EXCEPT ![r] = result.openaiRequest]
       /\ thinkingConfig' = [thinkingConfig EXCEPT ![r] = result.thinkingConfig]
  /\ pc' = [pc EXCEPT ![r] = "REQUEST_TRANSFORMED"]
  /\ UNCHANGED <<procVars, bodyVars, upVars, anthropicRequest, anthropicResponse,
                 written>>
  /\ UNCHANGED <<transformer, unitVars>>

\* _forwardToUpstream up to req.end(): arms the timer and sends the request
Forward(r) ==
  /\ Alive
  /\ pc[r] = "REQUEST_TRANSFORMED"
  /\ calls' = [calls EXCEPT ![r].forward = @ + 1]
  /\ timeoutHandle' = [timeoutHandle EXCEPT ![r] = "armed"]
  /\ upReq' = [upReq EXCEPT ![r] = "sent"]
  /\ upPromise' = [upPromise EXCEPT ![r] = Pending]
  /\ pc' = [pc EXCEPT ![r] = "FORWARDED"]
  /\ UNCHANGED <<procVars, bodyVars, statusCode, upBody, pipeVars, written>>
  /\ UNCHANGED <<transformer, unitVars>>

clearTimeout(h) == IF h = "armed" THEN "cleared" ELSE h

\* the setTimeout callback: req.destroy(); reject(timeout)
Timeout(r) ==
  /\ Alive /\ EventLoopIdle
  /\ timeoutHandle[r] = "armed"
  /\ timeoutHandle' = [timeoutHandle EXCEPT ![r] = "fired"]
  /\ upReq' = [upReq EXCEPT ![r] = "destroyed"]
  /\ upPromise' = [upPromise EXCEPT ![r] = Settle(@, Rejected(TimeoutMsg))]
  /\ UNCHANGED <<procVars, pc, bodyVars, statusCode, upBody, pipeVars, written,
                 calls>>
  /\ UNCHANGED <<transformer, unitVars>>

\* the https.request callback: the upstream response headers arrived
UpResponse(r, status) ==
  /\ Alive /\ EventLoopIdle
  /\ upReq[r] = "sent"
  /\ timeoutHandle' = [timeoutHandle EXCEPT ![r] = clearTimeout(@)]
  /\ statusCode' = [statusCode EXCEPT ![r] = status]
  /\ upReq' = [upReq EXCEPT ![r] = "headers"]
  /\ UNCHANGED <<procVars, pc, bodyVars, upBody, upPromise, pipeVars, written,
                 calls>>
  /\ UNCHANGED <<transformer, unitVars>>

\* EndOutcome without the status check of lines 229-234
EndOutcome_noStatusCheck(status, text) ==
  IF JSONparse(text).ok THEN Resolved(JSONparse(text).value)
  ELSE Rejected(BadUpstreamJsonMsg)

\* the outcome of the res.on('end') handler, lines 223-241
EndOutcome(status, text) ==
  IF status # 200 THEN Rejected(StatusMsg)
  ELSE IF JSONparse(text).ok THEN Resolved(JSONparse(text).value)
  ELSE Rejected(BadUpstreamJsonMsg)

\* res.on('data') and res.on('end') of the upstream response: the chunks
\* pushed so far are joined into the body text
UpEnd(r, text) ==
  /\ Alive /\ EventLoopIdle
  /\ upReq[r] = "headers"
  /\ upReq' = [upReq EXCEPT ![r] = "ended"]
  /\ upBody' = [upBody EXCEPT ![r] = text]
  /\ upPromise' = [upPromise EXCEPT ![r] = Settle(@, EndOutcome(statusCode[r], text))]
  /\ UNCHANGED <<procVars, pc, bodyVars, timeoutHandle, statusCode,
                 pipeVars, written, calls>>
  /\ UNCHANGED <<transformer, unitVars>>

\* A socket-error handler that answers the client itself
UpError_respond(r) ==
  /\ Alive /\ EventLoopIdle
  /\ upReq[r] \in {"sent", "headers", "destroyed"}
  /\ timeoutHandle' = [timeoutHandle EXCEPT ![r] = clearTimeout(@)]
  /\ upReq' = [upReq EXCEPT ![r] = "errored"]
  /\ upPromise' = [upPromise EXCEPT ![r] = Settle(@, Rejected(SocketMsg))]
  /\ written' = [written EXCEPT ![r] = Append(@,
         [status |-> 500, body |-> ErrorEnvelope("proxy_error", SocketMsg)])]
  /\ UNCHANGED <<procVars, pc, bodyVars, statusCode, upBody, pipeVars, calls>>
  /\ UNCHANGED <<transformer, unitVars>>

\* req.on('error') of the outbound request: a socket error, or the
\* 'socket hang up' that req.destroy() raises after the timeout
UpError(r) ==
  /\ Alive /\ EventLoopIdle
  /\ upReq[r] \in {"sent", "headers", "destroyed"}
  /\ timeoutHandle' = [timeoutHandle EXCEPT ![r] = clearTimeout(@)]
  /\ upReq' = [upReq EXCEPT ![r] = "errored"]
  /\ upPromise' = [upPromise EXCEPT ![r] = Settle(@, Rejected(SocketMsg))]
  /\ UNCHANGED <<procVars, pc, bodyVars, statusCode, upBody, pipeVars, written,
                 calls>>
  /\ UNCHANGED <<transformer, unitVars>>

\* AfterUpstream with a retry: a rejected upstream call is issued again
AfterUpstream_retry(r) ==
  /\ Alive
  /\ pc[r] = "FORWARDED"
  /\ upPromise[r].state # "pending"
  /\ pc' = [pc EXCEPT ![r] = IF upPromise[r].state = "resolved"
                               THEN "UPSTREAM_RESPONDED"
                               ELSE "REQUEST_TRANSFORMED"]
  /\ UNCHANGED <<procVars, written, bodyVars, upVars, pipeVars, calls>>
  /\ UNCHANGED <<transformer, unitVars>>

\* handleRequest resumes after `await this._forwardToUpstream(...)`
AfterUpstream(r) ==
  /\ Alive
  /\ pc[r] = "FORWARDED"
  /\ upPromise[r].state # "pending"
  /\ IF upPromise[r].state = "resolved"
       THEN /\ pc' = [pc EXCEPT ![r] = "UPSTREAM_RESPONDED"]
            /\ UNCHANGED <<procVars, written>>
       ELSE Catch(r, upPromise[r].value, "ERROR_UPSTREAM")
  /\ UNCHANGED <<bodyVars, upVars, pipeVars, calls>>
  /\ UNCHANGED <<transformer, unitVars>>

\* handleRequest lines 125-129
TransformResponse(r) ==
  /\ Alive
  /\ pc[r] = "UPSTREAM_RESPONDED"
  /\ calls' = [calls EXCEPT ![r].transformResponse = @ + 1]
  /\ anthropicResponse' = [anthropicResponse EXCEPT ![r] =
                             transformResponse(JSONvalue(upPromise[r].value),
                                               thinkingConfig[r])]
  /\ pc' = [pc EXCEPT ![r] = "RESPONSE_TRANSFORMED"]
  /\ UNCHANGED <<procVars, bodyVars, upVars, anthropicRequest, openaiRequest,
                 thinkingConfig, written>>
  /\ UNCHANGED <<transformer, unitVars>>

\* Send without waiting for the response transformer
Send_early(r) ==
  /\ Alive
  /\ pc[r] \in {"UPSTREAM_RESPONDED", "RESPONSE_TRANSFORMED"}
  /\ written' = [written EXCEPT ![r] = Append(@,
         [status |-> 200, body |-> anthropicResponse[r]])]
  /\ pc' = [pc EXCEPT ![r] = "SENT"]
  /\ UNCHANGED <<procVars, bodyVars, upVars, pipeVars, calls>>
  /\ UNCHANGED <<transformer, unitVars>>

\* handleRequest lines 131-136: res.writeHead(200); res.end(...)
Send(r) ==
  /\ Alive
  /\ pc[r] = "RESPONSE_TRANSFORMED"
  /\ written' = [written EXCEPT ![r] = Append(@,
         [status |-> 200, body |-> anthropicResponse[r]])]
  /\ pc' = [pc EXCEPT ![r] = "SENT"]
  /\ UNCHANGED <<procVars, bodyVars, upVars, pipeVars, calls>>
  /\ UNCHANGED <<transformer, unitVars>>

Next ==
  \/ Listening
  \/ BindFailure
  \/ Signal
  \/ \E r \in Requests, m \in Methods : Accept(r, m)
  \/ \E r \in Requests : ReqData(r)
  \/ \E r \in Requests, text \in InBodies : ReqEnd(r, text)
  \/ \E r \in Requests : ReqError(r)
  \/ \E r \in Requests : AfterBody(r)
  \/ \E r \in Requests : ParseBody(r)
  \/ \E r \in Requests : TransformRequest(r)
  \/ \E r \in Requests : Forward(r)
  \/ \E r \in Requests : Timeout(r)
  \/ \E r \in Requests, status \in StatusCodes : UpResponse(r, status)
  \/ \E r \in Requests, text \in UpBodies : UpEnd(r, text)
  \/ \E r \in Requests : UpError(r)
  \/ \E r \in Requests : AfterUpstream(r)
  \/ \E r \in Requests : TransformResponse(r)
  \/ \E r \in Requests : Send(r)

Spec == Init /\ [][Next]_vars

\* The event loop runs every continuation of handleRequest that is ready and
\* fires every timer that stays armed; what the client and the upstream send,
\* and when, is not up to the proxy.
Fairness ==
  \A r \in Requests :
    /\ WF_vars(AfterBody(r))
    /\ WF_vars(ParseBody(r))
    /\ WF_vars(TransformRequest(r))
    /\ WF_vars(Forward(r))
    /\ WF_vars(Timeout(r))
    /\ WF_vars(AfterUpstream(r))
    /\ WF_vars(TransformResponse(r))
    /\ WF_vars(Send(r))

FairSpec == Spec /\ Fairness

\* ------------------------------------------- the inbound side after the body
\* The client closes the inbound connection after its body was read, while
\* the upstream call of the request is pending.  _readBody registered 'data',
\* 'end' and 'error' listeners only and its promise has settled;
\* _forwardToUpstream registers nothing on the inbound request: no handler
\* runs.
ClientAbort(r) ==
  /\ Alive /\ EventLoopIdle
  /\ reqStream[r] = "ended"
  /\ pc[r] = "FORWARDED"
  /\ upReq[r] \in {"sent", "headers"}
  /\ reqStream' = [reqStream EXCEPT ![r] = "aborted"]
  /\ UNCHANGED <<procVars, pc, totalSize, dataEvents, bodyPromise, upVars,
                 pipeVars, written, calls, transformer, unitVars>>

AbortNext ==
  \/ Next
  \/ \E r \in Requests : ClientAbort(r)

AbortSpec == Init /\ [][AbortNext]_vars

\* ------------------------------------------- the transformer called directly
MaxMsgs == 2         \* messages in the inbound request handed to the transformer

TextBlock(words) == Obj([type |-> Str(<<"text">>), text |-> Str(words)])
ToolUseBlock ==
  Obj([type |-> Str(<<"tool_use">>), id |-> Str(<<"t1">>), name |-> Str(<<"ls">>)])
ThinkingBlock ==
  Obj([type |-> Str(<<"thinking">>), thinking |-> Str(<<"hm">>)])
Message(role, content) == Obj([role |-> Str(<<role>>), content |-> content])

\* what a user writes: plain words, control tags in either case, one or two
\* tags in one message, keywords of the documented task classifier
UserTexts ==
  {<<"hi">>, <<"<Thinking:Off>">>, <<"<thinking:ON>">>,
   <<"<thinking:ON>", "<THINKING:off>">>, <<"<Effort:High>">>,
   <<"<EFFORT:LOW>", "<effort:high>">>, <<"list files">>,
   <<"ultrathink", "list files">>}
BlockLists ==
  {<<>>, <<TextBlock(<<"a">>)>>, <<ToolUseBlock>>,
   <<TextBlock(<<"a">>), TextBlock(<<"b">>)>>,
   <<ThinkingBlock, TextBlock(<<"a">>), ToolUseBlock, TextBlock(<<"b">>)>>,
   <<TextBlock(<<"<Thinking:Off>">>)>>}
Messages ==
  {Message("user", Str(t)) : t \in UserTexts}
    \cup {Message("assistant", Str(<<"<Thinking:Off>">>))}
    \cup {Message("user", Arr(b)) : b \in BlockLists}
    \cup {Message("user", Null), Null}
MessageLists == UNION {[1..n -> Messages] : n \in 0..MaxMsgs}
Streams == {Absent, Bool(TRUE), Bool(FALSE)}
WithStream(fields, stream) ==
  IF Kind(stream) = "undefined" THEN fields ELSE ("stream" :> stream) @@ fields

\* the values JSON.parse can hand to transformRequest
Payloads ==
  {Null}
    \cup {Obj(WithStream([messages |-> Arr(l)], s)) :
            l \in MessageLists, s \in Streams}
    \cup {Obj(WithStream([messages |-> Num(5)], s)) : s \in Streams}
    \cup {Obj(WithStream(<<>>, s)) : s \in Streams}
    \cup {Obj([model |-> Str(<<"claude-sonnet-4">>),
               messages |-> Arr(<<Message("user", Str(<<"hi">>))>>),
               temperature |-> Num(1), top_p |-> Num(1)])}

ToolCall(arguments) ==
  Obj([id |-> Str(<<"c1">>),
       function |-> Obj([name |-> Str(<<"ls">>), arguments |-> Str(arguments)])])
Choice(message, reason) == Obj([message |-> message, finish_reason |-> Str(<<reason>>)])

\* the tool calls of one upstream message: the arguments string is an object,
\* the empty object, empty, or no JSON; the ids follow the position
MaxCalls == 2        \* tool calls in one upstream message
CallIds == [i \in 1..(MaxCalls + 1) |-> <<"c1", "c2", "c3", "c4">>[i]]
ToolCallAt(i, arguments) ==
  Obj([id |-> Str(<<CallIds[i]>>),
       function |-> Obj([name |-> Str(<<"ls">>), arguments |-> Str(arguments)])])
ArgumentStrings == {<<"{path:.}">>, <<"{}">>, <<>>, <<NotJson>>}
ToolCallLists ==
  UNION {{[i \in 1..n |-> ToolCallAt(i, a[i])] : a \in [1..n -> ArgumentStrings]} :
           n \in 0..MaxCalls}
WithToolCalls(fields, calls_) ==
  IF calls_ = <<>> THEN fields ELSE ("tool_calls" :> Arr(calls_)) @@ fields
WithReasoning(fields, reasoning) ==
  IF Kind(reasoning) = "undefined" THEN fields
  ELSE ("reasoning_content" :> reasoning) @@ fields
\* the upstream messages: content null, empty or text; reasoning_content
\* missing, empty, text or (against the API) a number
UpstreamMessages ==
  {Obj(WithToolCalls(WithReasoning([content |-> c], t), l)) :
     c \in {Null, Str(<<>>), Str(<<"done">>)},
     t \in {Absent, Str(<<>>), Str(<<"hm">>), Num(5)},
     l \in ToolCallLists}
FinishReasons ==
  {"stop", "length", "tool_calls", "content_filter", "function_call",
   "constructor", "toString"}

\* the values JSON.parse can hand to transformResponse
Responses ==
  {Null, Obj(<<>>), Obj([choices |-> Null]), Obj([choices |-> Arr(<<>>)]),
   Obj([choices |-> Arr(<<Obj([finish_reason |-> Str(<<"stop">>)])>>)]),
   Obj([id |-> Str(<<"chatcmpl-1">>),
        choices |-> Arr(<<Choice(Obj([content |-> Str(<<"done">>)]), "stop")>>)]),
   Obj([choices |-> Arr(<<Choice(Obj([content |-> Str(<<"done">>),
                                      reasoning_content |-> Str(<<"hm">>)]), "length")>>)]),
   Obj([choices |-> Arr(<<Choice(Obj([content |-> Null,
                                      tool_calls |-> Arr(<<ToolCall(<<"{path:.}">>)>>)]),
                                 "tool_calls")>>)]),
   Obj([choices |-> Arr(<<Choice(Obj([tool_calls |-> Arr(<<ToolCall(<<NotJson>>)>>)]),
                                 "tool_calls")>>)])}
    \cup {Obj([choices |-> Arr(<<Choice(m, "stop")>>)]) : m \in UpstreamMessages}
    \cup {Obj([choices |-> Arr(<<Choice(Obj([content |-> Str(<<"done">>)]), f)>>),
               model |-> Str(<<"glm-4.5">>),
               usage |-> Obj([input_tokens |-> Num(7), output_tokens |-> Num(9)])]) :
            f \in FinishReasons}
    \cup {Obj([choices |-> Arr(<<Obj([message |-> Obj([content |-> Str(<<"done">>)])])>>)]),
          Obj([choices |-> Arr(<<Obj([message |-> Obj([content |-> Str(<<"done">>)]),
                                      finish_reason |-> Num(5)])>>)]),
          Obj([choices |-> Arr(<<Choice(Obj([tool_calls |-> Str(<<"ls">>)]), "stop")>>)]),
          Obj([choices |-> Arr(<<Choice(Obj([tool_calls |->
                                   Arr(<<Obj([id |-> Str(<<"c1">>)])>>)]), "stop")>>)])}
ThinkingConfigs ==
  {[thinking |-> FALSE], [thinking |-> FALSE, effort |-> "medium"],
   [thinking |-> TRUE, effort |-> "high"]}

\* transformer.transformRequest(payload), called once on a fresh instance
CallTransformRequest(payload) ==
  /\ unitCall = "none"
  /\ unitCall' = "transformRequest"
  /\ unitArgs' = <<payload>>
  /\ unitResult' = transformRequest(payload)
  /\ UNCHANGED <<procVars, pc, bodyVars, upVars, pipeVars, written, calls,
                 transformer, disk, accumulator, handled>>

\* transformer.transformResponse(response, config)
CallTransformResponse(response, config) ==
  /\ unitCall = "none"
  /\ unitCall' = "transformResponse"
  /\ unitArgs' = <<response, config>>
  /\ unitResult' = transformResponse(response, config)
  /\ UNCHANGED <<procVars, pc, bodyVars, upVars, pipeVars, written, calls,
                 transformer, disk, accumulator, handled>>

UnitNext ==
  \/ \E payload \in Payloads : CallTransformRequest(payload)
  \/ \E response \in Responses, config \in ThinkingConfigs :
       CallTransformResponse(response, config)

UnitSpec == Init /\ [][UnitNext]_vars

\* new GlmtTransformer({ verbose, debugLog }), lines 29-39
Construct(verbose, debugLog) ==
  /\ unitCall = "none"
  /\ transformer' = [defaultThinking |-> TRUE, verbose |-> verbose,
                     debugLog |-> debugLog]
  /\ UNCHANGED <<procVars, pc, bodyVars, upVars, pipeVars, written, calls,
                 unitVars>>

\* the debug log directory stops taking writes (permissions, a full disk)
DiskFails ==
  /\ unitCall = "none"
  /\ disk = "writable"
  /\ disk' = "failing"
  /\ UNCHANGED <<procVars, pc, bodyVars, upVars, pipeVars, written, calls,
                 transformer, unitCall, unitArgs, unitResult, accumulator, handled>>

\* transformResponse called once on an instance with any flags, with the
\* debug log directory writable or not
ResponseNext ==
  \/ \E verbose \in BOOLEAN, debugLog \in BOOLEAN : Construct(verbose, debugLog)
  \/ DiskFails
  \/ \E response \in Responses, config \in ThinkingConfigs :
       CallTransformResponse(response, config)

ResponseSpec == Init /\ [][ResponseNext]_vars

\* ---------------------------------- the loop detector, exchange by exchange
eventsHandled == Len(handled["a"]) + Len(handled["b"])

\* One counter for all exchanges
TrackThinkingLoop_global(x, event) ==
  /\ eventsHandled < MaxEvents
  /\ accumulator' = [y \in Exchanges |-> trackThinkingLoop(accumulator[y], event)]
  /\ handled' = [handled EXCEPT ![x] = Append(@, event)]
  /\ UNCHANGED <<procVars, pc, bodyVars, upVars, pipeVars, written, calls,
                 transformer, unitCall, unitArgs, unitResult, disk>>

\* the accumulator of exchange x handles the next event of its stream
TrackThinkingLoop(x, event) ==
  /\ eventsHandled < MaxEvents
  /\ accumulator' = [accumulator EXCEPT ![x] = trackThinkingLoop(@, event)]
  /\ handled' = [handled EXCEPT ![x] = Append(@, event)]
  /\ UNCHANGED <<procVars, pc, bodyVars, upVars, pipeVars, written, calls,
                 transformer, unitCall, unitArgs, unitResult, disk>>

LoopNext == \E x \in Exchanges, event \in Events : TrackThinkingLoop(x, event)

LoopSpec == Init /\ [][LoopNext]_vars

\* --------------------------------------------- the locale enforcer, called
\* the messages a conversation can hold: any role, text or block content
Roles == {"system", "user", "assistant"}
ChatContents ==
  {Str(<<"hi">>), Str(<<"list files">>), Arr(<<TextBlock(<<"a">>)>>),
   Arr(<<ToolUseBlock, TextBlock(<<"b">>)>>)}
ChatMessages == {Message(role, content) : role \in Roles, content \in ChatContents}
ChatLists == UNION {[1..n -> ChatMessages] : n \in 0..MaxMsgs}

\* localeEnforcer.injectInstruction(messages), called once
CallInjectInstruction(messages) ==
  /\ unitCall = "none"
  /\ unitCall' = "injectInstruction"
  /\ unitArgs' = <<Arr(messages), Arr(injectInstruction(messages).argument)>>
  /\ unitResult' = Arr(injectInstruction(messages).returned)
  /\ UNCHANGED <<procVars, pc, bodyVars, upVars, pipeVars, written, calls,
                 transformer, disk, accumulator, handled>>

LocaleNext == \E messages \in ChatLists : CallInjectInstruction(messages)

LocaleSpec == Init /\ [][LocaleNext]_vars

\* ------------------------------------------------------------------ claims
\* The stages of one request are the positions of handleRequest; "RECEIVED"
\* is the await of _readBody and "FORWARDED" the await of _forwardToUpstream.
Stages == <<"RECEIVED", "BODY_READ", "PARSED", "REQUEST_TRANSFORMED",
            "FORWARDED", "UPSTREAM_RESPONDED", "RESPONSE_TRANSFORMED", "SENT">>
ErrorStates == {"ERROR_METHOD", "ERROR_BODY_TOO_LARGE", "ERROR_BAD_JSON",
                "ERROR_UPSTREAM", "ERROR_INTERNAL"}
Terminal == ErrorStates \cup {"SENT"}
IsStage(s) == \E i \in 1..Len(Stages) : Stages[i] = s
StageIndex(s) == CHOOSE i \in 1..Len(Stages) : Stages[i] = s

\* the response is a failure response with an {error:{type, message}} body
IsEnvelope(resp) ==
  /\ "error" \in DOMAIN resp.body
  /\ resp.body.error.json = "object"
IsError(resp, status, type) ==
  /\ resp.status = status
  /\ IsEnvelope(resp)
  /\ resp.body.error.type = type

BodyRejected(r) == bodyPromise[r].state = "rejected"
BadJson(r) ==
  bodyPromise[r].state = "resolved" /\ ~JSONparse(bodyPromise[r].value).ok
RequestTransformThrew(r) ==
  /\ calls[r].transformRequest = 1
  /\ requestThrows(JSONvalue(anthropicRequest[r]))
UpstreamRejected(r) == upPromise[r].state = "rejected"
ResponseTransformThrew(r) ==
  /\ calls[r].transformResponse = 1
  /\ responseError(JSONvalue(upPromise[r].value)) # "none"
FailureRaised(r) ==
  \/ BodyRejected(r)
  \/ calls[r].parse = 1 /\ BadJson(r)
  \/ RequestTransformThrew(r)
  \/ UpstreamRejected(r)
  \/ ResponseTransformThrew(r)

\* C1: a request that reached the upstream-forwarding step is eventually
\* answered (unless the process was told to exit), wherever the upstream
\* stalls.
C1_ForwardedRequestAnswered ==
  \A r \in Requests :
    (pc[r] = "FORWARDED") ~> (written[r] # <<>> \/ process = "exited")

C3_FailureBodyIsEnvelope ==
  \A r \in Requests : \A i \in 1..Len(written[r]) :
    written[r][i].status # 200 =>
      /\ IsEnvelope(written[r][i])
      /\ written[r][i].body.error.type \in {"invalid_request_error", "proxy_error"}

\* C4: a request enters at RECEIVED (or is refused at once), every later move
\* is to the next stage or to a terminal error state, and the upstream call,
\* the response transformer and the 200 each happen once, at their stage,
\* after everything before them.
C4_StageOrder ==
  [][\A r \in Requests :
       /\ pc'[r] # pc[r] =>
            \/ pc[r] = "none" /\ pc'[r] \in {"RECEIVED", "ERROR_METHOD"}
            \/ /\ IsStage(pc[r]) /\ pc[r] # "SENT" /\ IsStage(pc'[r])
               /\ StageIndex(pc'[r]) = StageIndex(pc[r]) + 1
            \/ IsStage(pc[r]) /\ pc[r] # "SENT" /\ pc'[r] \in ErrorStates
       /\ calls'[r].forward # calls[r].forward =>
            /\ pc[r] = "REQUEST_TRANSFORMED"
            /\ bodyPromise[r].state = "resolved"
            /\ calls[r] = [parse |-> 1, transformRequest |-> 1, forward |-> 0,
                           transformResponse |-> 0]
       /\ calls'[r].transformResponse # calls[r].transformResponse =>
            /\ pc[r] = "UPSTREAM_RESPONDED"
            /\ upPromise[r].state = "resolved"
            /\ calls[r] = [parse |-> 1, transformRequest |-> 1, forward |-> 1,
                           transformResponse |-> 0]
       /\ (written'[r] # written[r] /\ written'[r][Len(written'[r])].status = 200) =>
            /\ pc[r] = "RESPONSE_TRANSFORMED"
            /\ calls[r].transformResponse = 1
            /\ written[r] = <<>>
    ]_vars

\* C4 witness: a request went through all stages and got its 200
C4_Witness ==
  \E r \in Requests : pc[r] = "SENT" /\ written[r][1].status = 200

\* C5: the four terminal error states are reported with pairwise distinct
\* (HTTP status, error type) pairs.
FourErrorStates == {"ERROR_BODY_TOO_LARGE", "ERROR_BAD_JSON", "ERROR_UPSTREAM",
                    "ERROR_INTERNAL"}
C5_DistinctErrorPairs ==
  \A r, q \in Requests :
    (pc[r] \in FourErrorStates /\ pc[q] \in FourErrorStates /\ pc[r] # pc[q]) =>
      <<written[r][1].status, written[r][1].body.error.type>>
        # <<written[q][1].status, written[q][1].body.error.type>>

\* C6: once the chunks of a body sum to more than 10 MB the connection is
\* aborted and the body is never parsed, transformed or forwarded; a body of
\* exactly 10 MB is accepted.
C6_OversizeBodyAborted ==
  \A r \in Requests :
    /\ totalSize[r] > maxSize =>
         /\ reqStream[r] # "open"
         /\ calls[r].parse = 0 /\ calls[r].transformRequest = 0
         /\ calls[r].forward = 0
    /\ (totalSize[r] = maxSize /\ reqStream[r] = "ended") =>
         bodyPromise[r].state = "resolved"

\* C7: a POST whose body is not valid JSON is answered 400 with an
\* invalid_request_error envelope, and neither the request transformer nor
\* the upstream call is invoked for it.
C7_BadJsonIs400 ==
  \A r \in Requests :
    BadJson(r) =>
      /\ calls[r].transformRequest = 0 /\ calls[r].forward = 0
      /\ upReq[r] = "none"
      /\ calls[r].parse = 1 =>
           /\ pc[r] = "ERROR_BAD_JSON"
           /\ Len(written[r]) = 1
           /\ IsError(written[r][1], 400, "invalid_request_error")

\* C7 witness: a body of exactly 10 MB that is not JSON was answered 400
C7_Witness ==
  \E r \in Requests :
    /\ pc[r] = "ERROR_BAD_JSON"
    /\ totalSize[r] = maxSize
    /\ written[r][1].status = 400

\* the upstream answered: its response ended with this status and body
UpstreamAnswered(r) == upReq[r] = "ended"
\* the outbound socket errored before the call had an outcome
SocketErrored(r) ==
  upReq[r] = "errored" /\ timeoutHandle[r] # "fired"

\* C8 as stated: a non-2xx status, an unparsable body or a socket error gives
\* a proxy_error and no response transformation; a 2xx status with a
\* parsable body is handed to the response transformer.
C8_Any2xxIsTransformed ==
  \A r \in Requests :
    /\ (\/ UpstreamAnswered(r) /\ statusCode[r] \notin 200..299
        \/ UpstreamAnswered(r) /\ ~JSONparse(upBody[r]).ok
        \/ SocketErrored(r)) =>
         /\ calls[r].transformResponse = 0
         /\ pc[r] \in Terminal => IsError(written[r][1], 500, "proxy_error")
    /\ (UpstreamAnswered(r) /\ statusCode[r] \in 200..299
        /\ JSONparse(upBody[r]).ok /\ pc[r] \in Terminal) =>
         /\ calls[r].transformResponse = 1
         /\ anthropicResponse[r] = transformResponse(JSONvalue(upBody[r]),
                                                       thinkingConfig[r])

\* C8 amended: a status other than 200, an unparsable body or a socket error
\* gives a proxy_error and no response transformation; status 200 with a
\* parsable body is handed to the response transformer.
C8_Only200IsTransformed ==
  \A r \in Requests :
    /\ (\/ UpstreamAnswered(r) /\ statusCode[r] # 200
        \/ UpstreamAnswered(r) /\ ~JSONparse(upBody[r]).ok
        \/ SocketErrored(r)) =>
         /\ upPromise[r].state = "rejected"
         /\ calls[r].transformResponse = 0
         /\ pc[r] \in Terminal =>
              /\ pc[r] = "ERROR_UPSTREAM"
              /\ IsError(written[r][1], 500, "proxy_error")
    /\ (UpstreamAnswered(r) /\ statusCode[r] = 200 /\ JSONparse(upBody[r]).ok) =>
         /\ upPromise[r] = Resolved(JSONparse(upBody[r]).value)
         /\ pc[r] \in {"RESPONSE_TRANSFORMED", "SENT"} =>
              /\ calls[r].transformResponse = 1
              /\ anthropicResponse[r] = transformResponse(JSONvalue(upBody[r]),
                                                       thinkingConfig[r])

\* C8 witness: one request refused for a 500 of the upstream with a parsable
\* body, one served from a 200
C8_Witness ==
  \E r, q \in Requests :
    /\ pc[r] = "ERROR_UPSTREAM" /\ UpstreamAnswered(r) /\ statusCode[r] = 500
    /\ JSONparse(upBody[r]).ok
    /\ pc[q] = "SENT" /\ UpstreamAnswered(q) /\ statusCode[q] = 200

\* C9: when the process has exited on a termination signal, every request
\* that was in flight has received its response.
C9_InFlightAnsweredBeforeExit ==
  (process = "exited" /\ exitCause = "signal") =>
    \A r \in Requests : pc[r] # "none" => written[r] # <<>>

\* C10: every inbound request causes at most one outbound call; a request
\* that ended in an upstream failure made exactly one call and was answered
\* with the error at once.
C10_AtMostOneOutboundCall ==
  \A r \in Requests :
    /\ calls[r].forward <= 1
    /\ pc[r] = "ERROR_UPSTREAM" =>
          /\ calls[r].forward = 1
          /\ Len(written[r]) = 1 /\ written[r][1].status = 500

\* C10 witness: the call timed out, the destroyed socket raised its late
\* error, and the request ended with the one call it made
C10_Witness ==
  \E r \in Requests :
    /\ pc[r] = "ERROR_UPSTREAM"
    /\ upPromise[r] = Rejected(TimeoutMsg)
    /\ upReq[r] = "errored"

\* C11: when the client aborts the inbound connection while the upstream
\* call of its request is in progress, the outbound call is cancelled: an
\* aborted request has no upstream call that is in flight or ran to its end.
C11_AbortCancelsUpstream ==
  \A r \in Requests :
    reqStream[r] = "aborted" => upReq[r] \notin {"sent", "headers", "ended"}

\* C12: with several requests in flight on the one transformer instance, no
\* request changes the instance, and what is forwarded and what is sent for
\* a request (the request it holds when it forwards, the message it holds
\* when it sends) is the transformation of its own body and of its own
\* upstream response: two requests with the same body forward the same
\* request, two with the same upstream response send the same message.
C12_RequestsDoNotInterfere ==
  /\ transformer = GlmtTransformer
  /\ \A r \in Requests :
       /\ pc[r] = "REQUEST_TRANSFORMED" =>
            LET own == transformRequest(JSONvalue(anthropicRequest[r])) IN
              /\ openaiRequest[r] = own.openaiRequest
              /\ thinkingConfig[r] = own.thinkingConfig
       /\ pc[r] = "RESPONSE_TRANSFORMED" =>
            anthropicResponse[r] =
              transformResponse(JSONvalue(upBody[r]), thinkingConfig[r])
       /\ pc[r] = "SENT" =>
            written[r] = <<[status |-> 200, body |-> anthropicResponse[r]]>>
  /\ \A r, q \in Requests :
       /\ (/\ calls[r].transformRequest = 1 /\ calls[q].transformRequest = 1
           /\ anthropicRequest[r] = anthropicRequest[q]) =>
            /\ openaiRequest[r] = openaiRequest[q]
            /\ thinkingConfig[r] = thinkingConfig[q]
       /\ (/\ calls[r].transformResponse = 1 /\ calls[q].transformResponse = 1
           /\ upBody[r] = upBody[q]) =>
            anthropicResponse[r] = anthropicResponse[q]

\* C12 witness: the first request still waits for its upstream while a later
\* request with another body, whose transformation failed, was transformed
\* both ways and answered
C12_Witness ==
  \E r, q \in Requests :
    /\ r < q
    /\ pc[r] = "FORWARDED" /\ upPromise[r].state = "pending"
    /\ pc[q] = "SENT" /\ calls[q].transformResponse = 1
    /\ anthropicRequest[r] # anthropicRequest[q]
    /\ RequestTransformThrew(q)

\* the messages transformRequest works on: `anthropicRequest.messages || []`
messagesOf(request) ==
  IF Falsy(Get(request, "messages")) THEN <<>> ELSE Items(Get(request, "messages"))

\* a direct call of transformRequest that returned from its try block
Transformed == unitCall = "transformRequest" /\ "error" \notin DOMAIN unitResult
\* a direct call of transformRequest that returned from its catch block
FellBack == unitCall = "transformRequest" /\ "error" \in DOMAIN unitResult

\* C13: every outbound request the request transformer yields has
\* stream = false, whatever the inbound stream field was and on the failure
\* fallback too.
C13_ForwardedStreamIsFalse ==
  unitCall = "transformRequest" =>
    Get(unitResult.openaiRequest, "stream") = Bool(FALSE)

\* the words of the string contents of the user messages, in message order
RECURSIVE userWords(_, _)
userWords(messages, i) ==
  IF i > Len(messages) THEN <<>>
  ELSE (IF /\ Get(messages[i], "role") = Str(<<"user">>)
           /\ Kind(Get(messages[i], "content")) = "string"
          THEN Value(Get(messages[i], "content")) ELSE <<>>)
       \o userWords(messages, i + 1)

\* the last word of the sequence that is one of the tags, 0 when none is
lastTag(words, tags) ==
  IF \E i \in 1..Len(words) : words[i] \in tags
    THEN CHOOSE i \in 1..Len(words) :
           /\ words[i] \in tags
           /\ \A j \in (i + 1)..Len(words) : words[j] \notin tags
    ELSE 0

\* C14: of several Thinking tags (resp. Effort tags) in the user messages,
\* in whatever case, the last one in the ordered message sequence decides,
\* whether the tags are in different messages or in the same message;
\* Thinking and Effort are decided independently.
C14_LastTagWins ==
  Transformed =>
    LET words == userWords(messagesOf(unitArgs[1]), 1) IN
      /\ lastTag(words, ThinkingTags) # 0 =>
           unitResult.thinkingConfig.thinking
             = thinkingOn(words[lastTag(words, ThinkingTags)])
      /\ lastTag(words, EffortTags) # 0 =>
           unitResult.thinkingConfig.effort
             = effortOf(words[lastTag(words, EffortTags)])

\* the keyword classes of the task classifier of docs/glmt-controls.md
MaxReasoningKeywords == {"ultrathink"}
ExecutionKeywords == {"list files"}

\* C15: without a control tag the ThinkingConfig is that of the
\* highest-priority keyword class matching the prompt: a prompt made of an
\* execution keyword only ('list files') has reasoning disabled, a prompt
\* with the maximum-reasoning keyword has reasoning enabled at the highest
\* effort even next to an execution keyword.
C15_KeywordClassDecides ==
  Transformed =>
    LET words == userWords(messagesOf(unitArgs[1]), 1) IN
      (/\ words # <<>>
       /\ lastTag(words, ThinkingTags \cup EffortTags) = 0) =>
        /\ (\E i \in 1..Len(words) : words[i] \in MaxReasoningKeywords) =>
             /\ unitResult.thinkingConfig.thinking
             /\ unitResult.thinkingConfig.effort = "high"
        /\ (\A i \in 1..Len(words) : words[i] \in ExecutionKeywords) =>
             ~unitResult.thinkingConfig.thinking

textsOf(content) ==
  IF Kind(content) = "string"
    THEN (IF Value(content) = <<>> THEN <<>> ELSE <<content>>)
  ELSE IF Kind(content) = "array"
    THEN LET blocks == SelectSeq(Value(content), isTextBlock) IN
           [i \in 1..Len(blocks) |-> Get(blocks[i], "text")]
  ELSE <<>>

\* C17: sanitization keeps the number, the order and the role of the
\* messages; a string content is unchanged; a block-array content keeps
\* exactly its text blocks in order, as the plain string when one remains, as
\* an array when several remain, as the empty string when none remains; for
\* these two shapes of content no text is lost and the result is never null.
C17_SanitizationKeepsText ==
  Transformed =>
    LET given == messagesOf(unitArgs[1])
        out == Items(Get(unitResult.openaiRequest, "messages"))
    IN /\ Len(out) = Len(given)
       /\ \A i \in 1..Len(given) :
            LET content == Get(given[i], "content")
                result == Get(out[i], "content")
            IN /\ Get(out[i], "role") = Get(given[i], "role")
               /\ Kind(content) = "string" => out[i] = given[i]
               /\ Kind(content) = "array" =>
                    /\ Len(textsOf(content)) = 0 => result = Str(<<>>)
                    /\ Len(textsOf(content)) = 1 => result = textsOf(content)[1]
                    /\ Len(textsOf(content)) > 1 =>
                         /\ Kind(result) = "array"
                         /\ \A k \in 1..Len(Value(result)) :
                              isTextBlock(Value(result)[k])
               /\ Kind(content) \in {"string", "array"} =>
                    /\ textsOf(result) = textsOf(content)
                    /\ Kind(result) \in {"string", "array"}

\* C17 witness: a thinking block, two text blocks and a tool_use block come
\* out as the two text blocks, next to a message whose single text block
\* came out as its string
C17_Witness ==
  /\ Transformed
  /\ \E i, k \in 1..Len(messagesOf(unitArgs[1])) :
       /\ Get(messagesOf(unitArgs[1])[i], "content") =
            Arr(<<ThinkingBlock, TextBlock(<<"a">>), ToolUseBlock, TextBlock(<<"b">>)>>)
       /\ Get(Items(Get(unitResult.openaiRequest, "messages"))[i], "content") =
            Arr(<<TextBlock(<<"a">>), TextBlock(<<"b">>)>>)
       /\ Get(messagesOf(unitArgs[1])[k], "content") = Arr(<<TextBlock(<<"a">>)>>)
       /\ Get(Items(Get(unitResult.openaiRequest, "messages"))[k], "content") =
            Str(<<"a">>)

\* the content is a string or an array of text blocks only
textOnly(msg) ==
  \/ Kind(Get(msg, "content")) = "string"
  \/ /\ Kind(Get(msg, "content")) = "array"
     /\ \A k \in 1..Len(Value(Get(msg, "content"))) :
          isTextBlock(Value(Get(msg, "content"))[k])

\* C18 as stated: sanitizing a message list in which every content is a
\* string or an array of text blocks only returns the list unchanged.
C18_TextOnlyListUnchanged ==
  (Transformed /\ \A i \in 1..Len(messagesOf(unitArgs[1])) :
                    textOnly(messagesOf(unitArgs[1])[i])) =>
    Items(Get(unitResult.openaiRequest, "messages")) = messagesOf(unitArgs[1])

\* C18 amended: sanitizing a message list in which every content is a string
\* or an array of two or more text blocks returns the list unchanged, and
\* for every message list sanitizing twice gives what sanitizing once gives.
C18_SanitizeIdempotent ==
  Transformed =>
    LET given == messagesOf(unitArgs[1])
        once == Get(unitResult.openaiRequest, "messages")
    IN /\ sanitizeMessages(once) = once
       /\ (\A i \in 1..Len(given) :
             /\ textOnly(given[i])
             /\ Kind(Get(given[i], "content")) = "array" =>
                  Len(Value(Get(given[i], "content"))) >= 2) =>
            Items(once) = given

\* C18 witness: a list with a one-text-block array and an empty array, which
\* sanitizing changes, and whose sanitized form sanitizing leaves alone
C18_Witness ==
  /\ Transformed
  /\ messagesOf(unitArgs[1]) =
       <<Message("user", Arr(<<TextBlock(<<"a">>)>>)), Message("user", Arr(<<>>))>>
  /\ Items(Get(unitResult.openaiRequest, "messages")) =
       <<Message("user", Str(<<"a">>)), Message("user", Str(<<>>))>>

\* C19: when request transformation throws, the transformer returns the
\* inbound payload itself as the outbound request, with thinking off, and
\* the ThinkingConfig it hands back carries an error marker.
C19_FallbackCarriesMarker ==
  FellBack =>
    /\ unitResult.openaiRequest = unitArgs[1]
    /\ ~unitResult.thinkingConfig.thinking
    /\ "error" \in DOMAIN unitResult.thinkingConfig

\* the upstream response has no choice: choices is missing, null or empty
zeroChoices(response) ==
  ~Nullish(response) /\ Len(Items(Get(response, "choices"))) = 0

\* C20: an upstream response with zero choices gives an internal error for
\* the request: the client is answered with an error, never with an
\* assistant message made up in the place of the missing one.
C20_ZeroChoicesIsError ==
  \A r \in Requests :
    (/\ pc[r] \in Terminal
     /\ upPromise[r].state = "resolved"
     /\ zeroChoices(JSONvalue(upBody[r]))) =>
      /\ written[r][1].status # 200
      /\ IsEnvelope(written[r][1])

\* the upstream message and the blocks of a direct transformResponse call
upstreamMessage == Get(firstChoice(unitArgs[1]), "message")
resultContent == Items(Get(unitResult, "content"))
Translated ==
  /\ unitCall = "transformResponse"
  /\ responseError(unitArgs[1]) = "none"
  /\ Kind(unitResult) = "object"
nonEmptyString(v) == Kind(v) = "string" /\ Value(v) # <<>>

\* C21: the content of a successfully translated response is one thinking
\* block carrying the whole reasoning_content iff that is present and not
\* empty, then one text block iff content is present and not empty, then one
\* tool_use block per upstream tool call in upstream order.
C21_ContentOrder ==
  Translated =>
    LET reasoning == Get(upstreamMessage, "reasoning_content")
        text == Get(upstreamMessage, "content")
        t == IF nonEmptyString(reasoning) THEN 1 ELSE 0
        x == IF nonEmptyString(text) THEN 1 ELSE 0
        n == Len(toolCalls(upstreamMessage))
    IN /\ Len(resultContent) = t + x + n
       /\ t = 1 => /\ Get(resultContent[1], "type") = Str(<<"thinking">>)
                   /\ Get(resultContent[1], "thinking") = reasoning
       /\ x = 1 => /\ Get(resultContent[t + 1], "type") = Str(<<"text">>)
                   /\ Get(resultContent[t + 1], "text") = text
       /\ \A i \in 1..n :
            /\ Get(resultContent[t + x + i], "type") = Str(<<"tool_use">>)
            /\ Get(resultContent[t + x + i], "id") =
                 Get(toolCalls(upstreamMessage)[i], "id")

\* C21 witness: reasoning, text and two tool calls were translated into four
\* blocks
C21_Witness ==
  /\ Translated
  /\ nonEmptyString(Get(upstreamMessage, "reasoning_content"))
  /\ nonEmptyString(Get(upstreamMessage, "content"))
  /\ Len(toolCalls(upstreamMessage)) = 2
  /\ Len(resultContent) = 4

\* JSON.parse accepts the arguments string
validArguments(toolCall) ==
  LET arguments == Get(Get(toolCall, "function"), "arguments")
  IN Kind(arguments) = "string" /\ Len(Value(arguments)) = 1
       /\ Value(arguments)[1] \in ArgumentTexts
isToolUseOf(block, toolCall) ==
  /\ Get(block, "type") = Str(<<"tool_use">>)
  /\ Get(block, "id") = Get(toolCall, "id")

\* C22: a tool call whose arguments string is not valid JSON is never
\* translated into a tool_use block with an empty input object, and its
\* failure is confined to that call: the text and the tool_use blocks of the
\* other calls are still returned.
C22_BadArgumentsFailPerCall ==
  (/\ unitCall = "transformResponse"
   /\ unitArgs[1] \in {Obj([choices |-> Arr(<<Choice(m, "stop")>>)]) :
                         m \in UpstreamMessages}
   /\ Kind(Get(upstreamMessage, "reasoning_content")) # "number") =>
    \A i \in 1..Len(toolCalls(upstreamMessage)) :
      ~validArguments(toolCalls(upstreamMessage)[i]) =>
        /\ ~\E b \in 1..Len(resultContent) :
              /\ isToolUseOf(resultContent[b], toolCalls(upstreamMessage)[i])
              /\ Get(resultContent[b], "input") = Obj(<<>>)
        /\ \A j \in 1..Len(toolCalls(upstreamMessage)) :
              validArguments(toolCalls(upstreamMessage)[j]) =>
                \E b \in 1..Len(resultContent) :
                  isToolUseOf(resultContent[b], toolCalls(upstreamMessage)[j])
        /\ nonEmptyString(Get(upstreamMessage, "content")) =>
              \E b \in 1..Len(resultContent) :
                Get(resultContent[b], "text") = Get(upstreamMessage, "content")

\* the fixed table of stop reasons
StopReasons == {"end_turn", "max_tokens", "tool_use", "stop_sequence"}
stopReasonTable(reason) ==
  CASE reason = Str(<<"stop">>) -> "end_turn"
    [] reason = Str(<<"length">>) -> "max_tokens"
    [] reason = Str(<<"tool_calls">>) -> "tool_use"
    [] reason = Str(<<"content_filter">>) -> "stop_sequence"
    [] OTHER -> "end_turn"

\* C23: the stop_reason of every response the transformer returns is one of
\* end_turn, max_tokens, tool_use, stop_sequence, and for a translated
\* response it is the table's entry for the upstream finish_reason, end_turn
\* for a missing value or any other string.
C23_StopReasonTable ==
  unitCall = "transformResponse" =>
    /\ Get(unitResult, "stop_reason") \in {Str(<<s>>) : s \in StopReasons}
    /\ Translated =>
         Get(unitResult, "stop_reason") =
           Str(<<stopReasonTable(Get(firstChoice(unitArgs[1]), "finish_reason"))>>)

\* C24: whenever the translation throws, transformResponse returns a message
\* of type message and role assistant whose content is one text block
\* carrying the error message, with stop_reason end_turn and zero usage; no
\* exception leaves transformResponse.
C24_FailureIsWellFormed ==
  unitCall = "transformResponse" =>
    /\ Kind(unitResult) = "object"
    /\ responseError(unitArgs[1]) # "none" =>
         /\ Get(unitResult, "type") = Str(<<"message">>)
         /\ Get(unitResult, "role") = Str(<<"assistant">>)
         /\ Len(resultContent) = 1
         /\ Get(resultContent[1], "type") = Str(<<"text">>)
         /\ \E w \in 1..Len(Value(Get(resultContent[1], "text"))) :
              Value(Get(resultContent[1], "text"))[w] = responseError(unitArgs[1])
         /\ Get(unitResult, "stop_reason") = Str(<<"end_turn">>)
         /\ Get(unitResult, "usage") =
              Obj([input_tokens |-> Num(0), output_tokens |-> Num(0)])

\* C24 witness: the arguments of a tool call did not parse, on an instance
\* that logs to a failing directory
C24_Witness ==
  /\ unitCall = "transformResponse"
  /\ responseError(unitArgs[1]) = "Unexpected token"
  /\ transformer.debugLog /\ disk = "failing"

\* what the translation alone gives for a response: the message of lines
\* 111-174, or the answer of the catch block to the error thrown on the way
translation(response) ==
  IF responseError(response) # "none"
    THEN errorResponse(responseError(response)) ELSE translate(response)

\* C28: validation and the debug log are advisory: with the verbose flag and
\* the debug-log flag on or off, validation passing or failing, the log
\* directory writable or not, transformResponse returns the content,
\* stop_reason and usage of the translation, and never an error in place of
\* a successful translation.
C28_LoggingIsAdvisory ==
  unitCall = "transformResponse" =>
    /\ Kind(unitResult) = "object"
    /\ \A field \in {"content", "stop_reason", "usage"} :
         Get(unitResult, field) = Get(translation(unitArgs[1]), field)

\* C28 witness: a successful translation on a verbose instance whose
\* validation failed and whose debug log could not be written
C28_Witness ==
  /\ Translated
  /\ transformer.verbose /\ transformer.debugLog /\ disk = "failing"
  /\ ~validateTransformation(unitResult).valid
  /\ Len(resultContent) > 0

\* C30: the translated response does not depend on the ThinkingConfig of the
\* request: every configuration gives the content this call returned, and a
\* translated response starts with a thinking block whenever the upstream
\* returned reasoning_content that is not empty, also when thinking was off.
C30_ResponseIgnoresThinkingConfig ==
  unitCall = "transformResponse" =>
    /\ \A config \in ThinkingConfigs :
         Get(transformResponse(unitArgs[1], config), "content") =
           Get(unitResult, "content")
    /\ (Translated /\ nonEmptyString(Get(upstreamMessage, "reasoning_content"))) =>
         /\ Len(resultContent) > 0
         /\ Get(resultContent[1], "type") = Str(<<"thinking">>)

\* C30 witness: the request had thinking off and the response carries the
\* upstream reasoning as a thinking block
C30_Witness ==
  /\ Translated
  /\ ~unitArgs[2].thinking
  /\ nonEmptyString(Get(upstreamMessage, "reasoning_content"))
  /\ Get(resultContent[1], "type") = Str(<<"thinking">>)

\* the thinking-block starts among the events
RECURSIVE thinkingStarts(_)
thinkingStarts(events) ==
  IF events = <<>> THEN 0
  ELSE thinkingStarts(Tail(events)) + (IF Head(events) = ThinkingStart THEN 1 ELSE 0)
isToolActivity(event) == event \in {ToolCallEvent, ToolResultEvent}
noToolActivity(events) == \A i \in 1..Len(events) : ~isToolActivity(events[i])
\* the events after the last tool call or tool result
RECURSIVE sinceToolActivity(_)
sinceToolActivity(events) ==
  IF events = <<>> THEN <<>>
  ELSE IF isToolActivity(events[Len(events)]) THEN <<>>
  ELSE Append(sinceToolActivity(SubSeq(events, 1, Len(events) - 1)),
              events[Len(events)])

\* C25: in a detector that starts at zero and sees no tool activity, the third
\* consecutive thinking-block start triggers exactly one loop breaker and
\* leaves the counter at zero, the fourth triggers none: there is one
\* injection per three consecutive thinking starts.
C25_InjectionAtThirdThinking ==
  \A x \in Exchanges :
    noToolActivity(handled[x]) =>
      /\ accumulator[x].injected = thinkingStarts(handled[x]) \div 3
      /\ thinkingStarts(handled[x]) = 3 =>
           accumulator[x].consecutiveThinkingBlocks = 0
      /\ thinkingStarts(handled[x]) = 4 => accumulator[x].injected = 1

\* C25 witness: four consecutive thinking starts, one injection
C25_Witness ==
  \E x \in Exchanges :
    /\ handled[x] = <<ThinkingStart, ThinkingStart, ThinkingStart, ThinkingStart>>
    /\ accumulator[x].injected = 1

\* C26: the counter of an exchange is the number of thinking-block starts
\* since its last tool call, tool result or injection, so it is zero right
\* after tool activity and in 0..2 after every event; thinking starts that
\* tool activity keeps apart never trigger an injection; the events of the
\* other exchange do not change it.
C26_CounterCountsSinceReset ==
  \A x \in Exchanges :
    /\ accumulator[x].consecutiveThinkingBlocks =
         thinkingStarts(sinceToolActivity(handled[x])) % 3
    /\ accumulator[x].consecutiveThinkingBlocks \in 0..2
    /\ (handled[x] # <<>> /\ isToolActivity(handled[x][Len(handled[x])])) =>
         accumulator[x].consecutiveThinkingBlocks = 0
    /\ (\A i \in 1..Len(handled[x]) :
          thinkingStarts(sinceToolActivity(SubSeq(handled[x], 1, i))) < 3) =>
         accumulator[x].injected = 0

\* C26 witness: two thinking starts, a tool result, two more thinking starts
\* in one exchange while the other exchange saw a thinking start of its own
C26_Witness ==
  \E x, y \in Exchanges :
    /\ x # y
    /\ handled[x] = <<ThinkingStart, ThinkingStart, ToolResultEvent,
                      ThinkingStart, ThinkingStart>>
    /\ handled[y] = <<ThinkingStart>>
    /\ accumulator[x].injected = 0

\* the message the locale enforcer has to rewrite: the first system message,
\* else the first user message, else none (0)
localeTarget(messages) ==
  IF \E i \in 1..Len(messages) : Get(messages[i], "role") = Str(<<"system">>)
    THEN CHOOSE i \in 1..Len(messages) :
           /\ Get(messages[i], "role") = Str(<<"system">>)
           /\ \A j \in 1..(i - 1) : Get(messages[j], "role") # Str(<<"system">>)
  ELSE IF \E i \in 1..Len(messages) : Get(messages[i], "role") = Str(<<"user">>)
    THEN CHOOSE i \in 1..Len(messages) :
           /\ Get(messages[i], "role") = Str(<<"user">>)
           /\ \A j \in 1..(i - 1) : Get(messages[j], "role") # Str(<<"user">>)
  ELSE 0
\* the content starts with the directive and goes on with the old content
startsWithDirective(new, old) ==
  /\ Kind(new) = Kind(old)
  /\ Kind(old) = "string" =>
       /\ Value(new)[1] = instruction
       /\ Tail(Value(new)) = Value(old)
  /\ Kind(old) = "array" =>
       /\ Get(Value(new)[1], "type") = Str(<<"text">>)
       /\ Get(Value(new)[1], "text") = Str(<<instruction>>)
       /\ Tail(Value(new)) = Value(old)

\* C27: the locale enforcer returns a list of the same length, order and
\* roles in which the directive is prepended to exactly one message, the
\* system message if there is one, else the first user message, and nothing
\* is changed if there is neither; the content keeps its shape, the caller's
\* list is not changed, and the directive contains no classifier keyword.
C27_DirectiveOnOneMessage ==
  /\ \A keyword \in ClassifierKeywords : ~includes(instructionLetters, keyword)
  /\ unitCall = "injectInstruction" =>
       LET given == Value(unitArgs[1])
           after == Value(unitArgs[2])
           returned == Value(unitResult)
           target == localeTarget(given)
       IN /\ after = given
          /\ Len(returned) = Len(given)
          /\ \A i \in 1..Len(given) :
               /\ Get(returned[i], "role") = Get(given[i], "role")
               /\ i # target => returned[i] = given[i]
               /\ i = target =>
                    startsWithDirective(Get(returned[i], "content"),
                                        Get(given[i], "content"))

\* C27 witness: a user message with block content comes before the system
\* message, and the system message got the directive
C27_Witness ==
  /\ unitCall = "injectInstruction"
  /\ Len(Value(unitArgs[1])) = 2
  /\ Get(Value(unitArgs[1])[1], "role") = Str(<<"user">>)
  /\ Kind(Get(Value(unitArgs[1])[1], "content")) = "array"
  /\ Get(Value(unitArgs[1])[2], "role") = Str(<<"system">>)
  /\ Value(unitResult)[1] = Value(unitArgs[1])[1]
  /\ Value(Get(Value(unitResult)[2], "content"))[1] = instruction

\* the outcomes of the upstream call: the parsed body of a 200, or one of the
\* four rejections
UpstreamOutcomes ==
  {Resolved(text) : text \in {t \in UpBodies : JSONparse(t).ok}}
    \cup {Rejected(msg) : msg \in {StatusMsg, BadUpstreamJsonMsg, SocketMsg,
                                    TimeoutMsg}}

====
